---- MODULE Spec2Model ----
(***************************************************************************)
(* Model of combineBottomImagesWithPoleRemoval                             *)
(* (surround360_render/source/render/PoleRemoval.cpp).                     *)
(*                                                                         *)
(* One call of the function is followed statement by statement: pc is the  *)
(* position in the function body, the other variables are the function's   *)
(* parameters, its locals, and what it did to the outside world (files     *)
(* read and written, calls of the optical flow engine, the order of the    *)
(* image operations).                                                      *)
(*                                                                         *)
(* A Mat is a record [rows, cols, px] where px maps <<y, x>> to a pixel.   *)
(* A BGRA pixel is <<b, g, r, a>> (Vec4b: index 3 of the code is index 4   *)
(* here), a BGR pixel <<b, g, r>>, a flow pixel <<dx, dy>>, a pole-mask    *)
(* pixel a BOOLEAN (TRUE: the pixel is marked as pole).                    *)
(***************************************************************************)
EXTENDS Integers, Sequences, FiniteSets, TLC

\* ------------------------------------------------------------------ bounds

\* Widest image of the model; images are MaxCols - 1 or MaxCols wide.
MaxCols == 4
\* Largest alphaFeatherSize passed by the caller.
MaxFeather == 1

\* Largest value of an 8-bit channel (Vec4b), and the divisor of line 151.
ChannelMax == 255

\* ------------------------------------------------------------ Mat helpers

\* A Mat of the given size whose pixel at p is f(p).
MakeMat(rows, cols, f(_)) ==
  [rows |-> rows, cols |-> cols,
   px |-> [p \in (0 .. rows - 1) \X (0 .. cols - 1) |-> f(p)]]

NoPixel(p) == 0

\* Mat(): no rows, no columns, no pixels.
EmptyMat == MakeMat(0, 0, NoPixel)

Pixels(m) == (0 .. m.rows - 1) \X (0 .. m.cols - 1)

SameSize(m1, m2) == m1.rows = m2.rows /\ m1.cols = m2.cols

Min2(a, b) == IF a < b THEN a ELSE b

Max2(a, b) == IF a > b THEN a ELSE b

Clamp8(v) == Max2(0, Min2(ChannelMax, v))

Alpha(m, p) == m.px[p][4]

\* The image m with the alpha of every pixel replaced by f(p); colour kept.
WithAlpha(m, f(_)) ==
  [m EXCEPT !.px = [p \in Pixels(m) |->
                      <<m.px[p][1], m.px[p][2], m.px[p][3], f(p)>>]]

\* ------------------------------------------------- the caller's file system

\* Colours (BGR) the camera images are painted with.
Palette ==
  << <<10, 200, 90>>, <<255, 0, 128>>, <<40, 40, 40>>, <<71, 129, 222>> >>

PaletteAt(i) == Palette[(i % Len(Palette)) + 1]

\* A 3-channel camera image of the given size; tex shifts the pattern.
RawImage(rows, cols, tex) ==
  LET f(p) == PaletteAt(p[1] + p[2] + tex) IN MakeMat(rows, cols, f)

\* A pole mask of the given size: "clear" marks nothing, "left" marks the
\* first column, "mid" marks the column at cols \div 2.
PoleMask(rows, cols, kind) ==
  LET f(p) == CASE kind = "left" -> p[2] = 0
                [] kind = "mid" -> p[2] = cols \div 2
                [] OTHER -> FALSE
  IN MakeMat(rows, cols, f)

\* A file that cannot be read, and a file holding the Mat m.
Absent == [readable |-> FALSE, mat |-> EmptyMat]

FileOf(m) == [readable |-> TRUE, mat |-> m]

\* What the image file of a camera can hold: nothing readable, or an image
\* of one of the widths, painted with one of the textures.
ImageFiles(widths, texs) ==
  {Absent} \cup {FileOf(RawImage(1, c, t)) : c \in widths, t \in texs}

\* What the pole mask file of a camera whose image is img can hold: nothing
\* readable, a matrix without rows, a matrix without columns, or a mask of
\* the size of the camera's image.
MaskFiles(img) ==
  {Absent, FileOf(MakeMat(0, img.cols, NoPixel)),
   FileOf(MakeMat(img.rows, 0, NoPixel))}
  \cup {FileOf(PoleMask(img.rows, img.cols, k)) : k \in {"left", "mid"}}

\* A flow field of the given size with the same displacement everywhere.
UniformFlow(rows, cols, d) ==
  LET f(p) == d IN MakeMat(rows, cols, f)

\* A 4-channel image as a previous call wrote it to flow_images/.
CachedImage(tex) ==
  LET f(p) == <<PaletteAt(p[2] + tex)[1], PaletteAt(p[2] + tex)[2],
                PaletteAt(p[2] + tex)[3],
                IF p[2] = 0 THEN 0 ELSE ChannelMax>>
  IN MakeMat(1, MaxCols, f)

\* What the previous frame's directory can hold.
CacheEntries ==
  { [flow |-> FileOf(UniformFlow(1, MaxCols, <<1, 0>>)),
     image |-> FileOf(CachedImage(0)), image2 |-> FileOf(CachedImage(1))],
    [flow |-> Absent,
     image |-> FileOf(CachedImage(0)), image2 |-> FileOf(CachedImage(1))],
    [flow |-> FileOf(UniformFlow(1, MaxCols, <<0, 0>>)),
     image |-> FileOf(CachedImage(1)), image2 |-> Absent] }

\* ------------------------------------------------------------ the camera rig

Camera(id, role, radius, flip) ==
  [cameraId |-> id, role |-> role, usablePixelsRadius |-> radius,
   flip180 |-> flip]

NoCamera == Camera("", "none", 0, FALSE)

\* The usable radii of the bottom cameras (pixels): half the width of the
\* widest image, which keeps every pixel of a one-row image, or one less,
\* which cuts its ends off.
Radii == {MaxCols \div 2 - 1, MaxCols \div 2}

\* The rigs the caller can pass: a side camera and the two bottom cameras,
\* or a rig whose secondary bottom camera is missing.
Rigs ==
  { << Camera("cam0", "side", MaxCols \div 2, FALSE),
       Camera("cam15", "bottom", r1, f1),
       Camera("cam16", "bottom2", r2, f2) >> :
      r1 \in Radii, r2 \in Radii, f1 \in BOOLEAN, f2 \in BOOLEAN }
  \cup { << Camera("cam0", "side", MaxCols \div 2, FALSE),
            Camera("cam15", "bottom", MaxCols \div 2, FALSE) >> }

HasRole(rig, role) == \E i \in 1 .. Len(rig) : rig[i].role = role

\* The first camera of the rig with the role.
CamWithRole(rig, role) ==
  rig[CHOOSE i \in 1 .. Len(rig) :
        /\ rig[i].role = role
        /\ \A j \in 1 .. i - 1 : rig[j].role # role]

\* ------------------------------------------------------- image operations

\* cvtColor(img, img, CV_BGR2BGRA): a fully opaque alpha channel is added.
CvtColorBGR2BGRA(m) ==
  LET f(p) == <<m.px[p][1], m.px[p][2], m.px[p][3], ChannelMax>>
  IN MakeMat(m.rows, m.cols, f)

\* Twice the offset of pixel centre p from the centre of m, squared.
CentreDist2(m, p) ==
  (2 * p[2] + 1 - m.cols) * (2 * p[2] + 1 - m.cols)
  + (2 * p[1] + 1 - m.rows) * (2 * p[1] + 1 - m.rows)

InsideRadius(m, p, radius) == CentreDist2(m, p) <= 4 * radius * radius

\* circleAlphaCut: alpha is zeroed outside the circle of the usable radius
\* around the image centre; nothing else changes.
CircleAlphaCut(m, radius) ==
  LET f(p) == IF InsideRadius(m, p, radius) THEN Alpha(m, p) ELSE 0
  IN WithAlpha(m, f)

\* cutRedMaskOutOfAlphaChannel: alpha is zeroed where the mask marks the pole.
CutRedMaskOutOfAlphaChannel(m, mask) ==
  LET f(p) == IF mask.px[p] THEN 0 ELSE Alpha(m, p)
  IN WithAlpha(m, f)

RECURSIVE SumAlpha(_, _)
SumAlpha(m, ps) ==
  IF ps = {} THEN 0
  ELSE LET p == CHOOSE q \in ps : TRUE
       IN Alpha(m, p) + SumAlpha(m, ps \ {p})

\* The pixels of m within size of p in both directions.
Window(m, p, size) ==
  {q \in Pixels(m) : /\ q[1] >= p[1] - size /\ q[1] <= p[1] + size
                     /\ q[2] >= p[2] - size /\ q[2] <= p[2] + size}

\* featherAlphaChannel: alpha is smoothed over a band of size pixels (the
\* mean of the alphas within that distance); colour is kept. A new Mat.
FeatherAlphaChannel(m, size) ==
  LET f(p) == SumAlpha(m, Window(m, p, size))
              \div Cardinality(Window(m, p, size))
  IN WithAlpha(m, f)

\* flip(img, img, -1): both axes are flipped, a rotation by 180 degrees.
Flip180(m) ==
  LET f(p) == m.px[<<m.rows - 1 - p[1], m.cols - 1 - p[2]>>]
  IN MakeMat(m.rows, m.cols, f)

\* Lines 121-126: warpMat(y, x) = Point2f(x, y) + flow(y, x), as <<x, y>>.
WarpMat(primary, fl) ==
  LET f(p) == <<p[2] + fl.px[p][1], p[1] + fl.px[p][2]>>
  IN MakeMat(primary.rows, primary.cols, f)

\* remap(src, dst, map, Mat(), CV_INTER_CUBIC, BORDER_CONSTANT): dst has the
\* size of the map; dst(y, x) = src(map(y, x)), and the constant border
\* value Scalar() (transparent black) outside src. The displacements of the
\* model are whole pixels, where the cubic kernel returns the source pixel.
Remap(src, map) ==
  LET f(p) == IF <<map.px[p][2], map.px[p][1]>> \in Pixels(src)
              THEN src.px[<<map.px[p][2], map.px[p][1]>>]
              ELSE <<0, 0, 0, 0>>
  IN MakeMat(map.rows, map.cols, f)

\* The per-channel corrections buildColorAdjustmentModel can fit:
\* <<gain in percent, bias>> for b, g and r.
ColorModels ==
  { << <<105, -3>>, <<95, 4>>, <<100, 2>> >>,
    << <<90, 12>>, <<100, -7>>, <<110, 5>> >> }

AdjustChannel(v, c) == Clamp8((v * c[1]) \div 100 + c[2])

\* applyColorAdjustmentModel: every colour channel goes through its
\* correction; alpha passes through unchanged. A new Mat.
ApplyColorAdjustmentModel(m, model) ==
  LET f(p) == <<AdjustChannel(m.px[p][1], model[1]),
                AdjustChannel(m.px[p][2], model[2]),
                AdjustChannel(m.px[p][3], model[3]),
                m.px[p][4]>>
  IN MakeMat(m.rows, m.cols, f)

\* ------------------------------------------------------------ the blend

\* Line 156: alpha < 1.0f && alpha2 > 0.0f, with alpha = a / 255.0f.
BlendGuard(a, a2) == a < ChannelMax /\ a2 > 0

\* A variant of Weighted255 with the two weights exchanged.
Weighted255Swapped(a, v1, v2) == (ChannelMax - a) * v1 + a * v2

\* Lines 157-158 and 166-168 before the conversion to uchar, times 255:
\* a1 * v1 + a2 * v2 with a1 = a / 255 and a2 = 1 - a1.
Weighted255(a, v1, v2) == a * v1 + (ChannelMax - a) * v2

\* The float sum is within rounding error of the exact one, so its
\* truncation to uchar can only differ from the exact floor when the exact
\* sum is a whole number and the float sum falls just below it; with a = 0
\* the float sum is exactly v2, with a = 255 exactly v1.
CanRoundBelow(a, v1, v2) ==
  /\ a > 0
  /\ a < ChannelMax
  /\ Weighted255(a, v1, v2) > 0
  /\ Weighted255(a, v1, v2) % ChannelMax = 0

\* Lines 165-169: one channel of the Vec4b, the float sum truncated.
BlendChannel(a, v1, v2, below) ==
  IF below THEN Weighted255(a, v1, v2) \div ChannelMax - 1
  ELSE Weighted255(a, v1, v2) \div ChannelMax

\* A variant of BlendPixel that composites the secondary over the primary,
\* weighted by the secondary's alpha.
BlendPixelSecondaryOver(p1, p2, below) ==
  IF p2[4] > 0
  THEN <<BlendChannel(ChannelMax - p2[4], p1[1], p2[1], FALSE),
         BlendChannel(ChannelMax - p2[4], p1[2], p2[2], FALSE),
         BlendChannel(ChannelMax - p2[4], p1[3], p2[3], FALSE),
         ChannelMax>>
  ELSE p1

\* Lines 151-170: the pixel the loop body leaves in bottomImage; below is
\* the set of channels whose float sum fell below the whole number.
BlendPixel(p1, p2, below) ==
  IF BlendGuard(p1[4], p2[4])
  THEN <<BlendChannel(p1[4], p1[1], p2[1], 1 \in below),
         BlendChannel(p1[4], p1[2], p2[2], 2 \in below),
         BlendChannel(p1[4], p1[3], p2[3], 3 \in below),
         ChannelMax>>
  ELSE p1

\* The <<pixel, channel>> pairs where the build decides the last unit.
RoundSlots(primary, secondary) ==
  {s \in Pixels(primary) \X (1 .. 3) :
     /\ BlendGuard(primary.px[s[1]][4], secondary.px[s[1]][4])
     /\ CanRoundBelow(primary.px[s[1]][4], primary.px[s[1]][s[2]],
                      secondary.px[s[1]][s[2]])}

\* Lines 149-172: the whole loop.
BlendImage(primary, secondary, below) ==
  LET f(p) == BlendPixel(primary.px[p], secondary.px[p],
                         {c \in 1 .. 3 : <<p, c>> \in below})
  IN MakeMat(primary.rows, primary.cols, f)

\* ------------------------------------------------------------------ state

VARIABLES
  pc,                       \* position in the function body
  errAt,                    \* the step that threw, "" while none did
  camModelArrayWithTop, prevFrameDataDir, saveDebugImages,
  saveFlowDataForNextFrame, alphaFeatherSize,         \* parameters (in)
  bottomCamModel, bottomImage,                        \* parameters (out)
  prevFrameData,            \* what the previous frame's directory holds
  rawBottomImage, rawBottomImage2,    \* the camera image files as read
  bottomCamModel2, bottomImage2, bottomRedMask, bottomRedMask2,
  prevFrameBottomPoleRemovalFlow, prevBottomImage, prevBottomImage2,
  flow, warpedBottomImage2, colorAdjustModel, adjustedBottomImage2,
  ops,                      \* the image operations done, in order
  cacheReads,               \* the files of prevFrameDataDir read, in order
  engineCalls,              \* the arguments of each computeOpticalFlow call
  written,                  \* the files written under outputDataDir, in order
  primaryBeforeBlend        \* bottomImage as the blend loop found it

params == <<camModelArrayWithTop, prevFrameDataDir, saveDebugImages,
            saveFlowDataForNextFrame, alphaFeatherSize, prevFrameData>>

raws == <<rawBottomImage, rawBottomImage2>>

masks == <<bottomRedMask, bottomRedMask2>>

priors == <<prevFrameBottomPoleRemovalFlow, prevBottomImage,
            prevBottomImage2>>

derived == <<flow, warpedBottomImage2, colorAdjustModel,
             adjustedBottomImage2, primaryBeforeBlend>>

effects == <<ops, cacheReads, engineCalls, written>>

vars == <<pc, errAt, params, raws, bottomCamModel, bottomImage, bottomCamModel2,
          bottomImage2, masks, priors, derived, effects>>

\* The files the function can write, relative to outputDataDir.
FlowFiles == <<"flow/flow_bottom_secondary.bin", "flow_images/bottomImage.png",
               "flow_images/bottomImage2.png">>

DebugInputFiles == <<"bottomImage.png", "bottomImage2.png", "bottomWarp2.png">>

DebugCombinedFiles == <<"_bottomCombined.png">>

\* The files of prevFrameDataDir, in the order lines 92-97 read them.
CacheFiles == <<"flow/flow_bottom_secondary.bin", "flow_images/bottomImage.png",
                "flow_images/bottomImage2.png">>

Range(seq) == {seq[i] : i \in 1 .. Len(seq)}

\* A VrCamException leaves the function from step at.
Throw(at) == pc' = "error" /\ errAt' = at

Goto(next) == pc' = next /\ errAt' = errAt

Init ==
  /\ pc = "selectCameras"
  /\ errAt = ""
  /\ camModelArrayWithTop \in Rigs
  /\ prevFrameDataDir \in {"NONE", "prev"}
  /\ prevFrameData \in
       IF prevFrameDataDir = "NONE"
       THEN {CHOOSE e \in CacheEntries :
               e.flow.readable /\ e.image.readable /\ e.image2.readable}
       ELSE CacheEntries
  /\ saveDebugImages \in BOOLEAN
  /\ saveFlowDataForNextFrame \in BOOLEAN
  /\ alphaFeatherSize \in 0 .. MaxFeather
  /\ bottomCamModel = NoCamera
  /\ bottomCamModel2 = NoCamera
  /\ bottomImage = EmptyMat
  /\ rawBottomImage = EmptyMat
  /\ rawBottomImage2 = EmptyMat
  /\ bottomImage2 = EmptyMat
  /\ bottomRedMask = EmptyMat
  /\ bottomRedMask2 = EmptyMat
  /\ prevFrameBottomPoleRemovalFlow = EmptyMat
  /\ prevBottomImage = EmptyMat
  /\ prevBottomImage2 = EmptyMat
  /\ flow = EmptyMat
  /\ warpedBottomImage2 = EmptyMat
  /\ colorAdjustModel = <<>>
  /\ adjustedBottomImage2 = EmptyMat
  /\ primaryBeforeBlend = EmptyMat
  /\ ops = <<>>
  /\ cacheReads = <<>>
  /\ engineCalls = <<>>
  /\ written = <<>>

\* ---------------------------------------------------------------- actions

\* Lines 45-46: getBottomCamModel, getBottomCamModel2; each throws when the
\* rig has no such camera.
SelectCameras ==
  /\ pc = "selectCameras"
  /\ IF ~HasRole(camModelArrayWithTop, "bottom")
     THEN Throw("selectCameras") /\ UNCHANGED <<bottomCamModel, bottomCamModel2>>
     ELSE /\ bottomCamModel' = CamWithRole(camModelArrayWithTop, "bottom")
          /\ IF ~HasRole(camModelArrayWithTop, "bottom2")
             THEN Throw("selectCameras") /\ UNCHANGED bottomCamModel2
             ELSE /\ bottomCamModel2' = CamWithRole(camModelArrayWithTop, "bottom2")
                  /\ Goto("readBottomImage")
  /\ UNCHANGED <<params, raws, bottomImage, bottomImage2, masks, priors, derived,
                 effects>>

\* Line 51: bottomImage = imreadExceptionOnFail(bottomImagePath, COLOR).
ReadBottomImage ==
  /\ pc = "readBottomImage"
  /\ \E f \in ImageFiles({MaxCols}, {0}) :
       IF f.readable
       THEN /\ bottomImage' = f.mat
            /\ rawBottomImage' = f.mat
            /\ Goto("readBottomImage2")
       ELSE UNCHANGED <<bottomImage, rawBottomImage>> /\ Throw("readBottomImage")
  /\ UNCHANGED <<params, rawBottomImage2, bottomCamModel, bottomCamModel2, bottomImage2, masks,
                 priors, derived, effects>>

\* Line 52: Mat bottomImage2 = imreadExceptionOnFail(bottomImagePath2, COLOR).
ReadBottomImage2 ==
  /\ pc = "readBottomImage2"
  /\ \E f \in ImageFiles({MaxCols - 1, MaxCols}, {2}) :
       IF f.readable
       THEN /\ bottomImage2' = f.mat
            /\ rawBottomImage2' = f.mat
            /\ Goto("readPoleMask")
       ELSE UNCHANGED <<bottomImage2, rawBottomImage2>> /\ Throw("readBottomImage2")
  /\ UNCHANGED <<params, rawBottomImage, bottomCamModel, bottomCamModel2, bottomImage, masks,
                 priors, derived, effects>>

\* Line 55: Mat bottomRedMask = imreadExceptionOnFail(poleMaskPath, 1).
ReadPoleMask ==
  /\ pc = "readPoleMask"
  /\ \E f \in MaskFiles(bottomImage) :
       IF f.readable
       THEN bottomRedMask' = f.mat /\ Goto("readPoleMask2")
       ELSE UNCHANGED bottomRedMask /\ Throw("readPoleMask")
  /\ UNCHANGED <<params, raws, bottomCamModel, bottomCamModel2, bottomImage,
                 bottomImage2, bottomRedMask2, priors, derived, effects>>

\* Line 56: Mat bottomRedMask2 = imreadExceptionOnFail(poleMaskPath2, 1).
ReadPoleMask2 ==
  /\ pc = "readPoleMask2"
  /\ \E f \in MaskFiles(bottomImage2) :
       IF f.readable
       THEN bottomRedMask2' = f.mat /\ Goto("checkPoleMasks")
       ELSE UNCHANGED bottomRedMask2 /\ Throw("readPoleMask2")
  /\ UNCHANGED <<params, raws, bottomCamModel, bottomCamModel2, bottomImage,
                 bottomImage2, bottomRedMask, priors, derived, effects>>

\* A variant of BadPoleMask that looks at the rows only.
BadPoleMaskRowsOnly(m, m2) == m.rows = 0 \/ m2.rows = 0

\* Lines 57-60: the condition of the throw.
BadPoleMask(m, m2) ==
  m.rows = 0 \/ m.cols = 0 \/ m2.rows = 0 \/ m2.cols = 0

\* Lines 57-63.
CheckPoleMasks ==
  /\ pc = "checkPoleMasks"
  /\ IF BadPoleMask(bottomRedMask, bottomRedMask2)
     THEN Throw("checkPoleMasks")
     ELSE Goto("makeAlphaChannels")
  /\ UNCHANGED <<params, raws, bottomCamModel, bottomCamModel2, bottomImage,
                 bottomImage2, masks, priors, derived, effects>>

\* Lines 66-69: make alpha channels from usable radius.
MakeAlphaChannels ==
  /\ pc = "makeAlphaChannels"
  /\ bottomImage' = CircleAlphaCut(CvtColorBGR2BGRA(bottomImage),
                                   bottomCamModel.usablePixelsRadius)
  /\ bottomImage2' = CircleAlphaCut(CvtColorBGR2BGRA(bottomImage2),
                                    bottomCamModel2.usablePixelsRadius)
  /\ ops' = ops \o <<"cvtColor", "cvtColor2", "circleAlphaCut",
                     "circleAlphaCut2">>
  /\ Goto("cutRedMasks")
  /\ UNCHANGED <<params, raws, bottomCamModel, bottomCamModel2, masks, priors,
                 derived, cacheReads, engineCalls, written>>

\* Lines 72-73: cut out red masks from alpha channel.
CutRedMasks ==
  /\ pc = "cutRedMasks"
  /\ bottomImage' = CutRedMaskOutOfAlphaChannel(bottomImage, bottomRedMask)
  /\ bottomImage2' = CutRedMaskOutOfAlphaChannel(bottomImage2, bottomRedMask2)
  /\ ops' = ops \o <<"cutRedMask", "cutRedMask2">>
  /\ Goto("featherAlpha")
  /\ UNCHANGED <<params, raws, bottomCamModel, bottomCamModel2, masks, priors,
                 derived, cacheReads, engineCalls, written>>

\* Lines 76-77: feather the alpha channels.
FeatherAlpha ==
  /\ pc = "featherAlpha"
  /\ bottomImage' = FeatherAlphaChannel(bottomImage, alphaFeatherSize)
  /\ bottomImage2' = FeatherAlphaChannel(bottomImage2, alphaFeatherSize)
  /\ ops' = ops \o <<"feather", "feather2">>
  /\ Goto("flipSecondary")
  /\ UNCHANGED <<params, raws, bottomCamModel, bottomCamModel2, masks, priors,
                 derived, cacheReads, engineCalls, written>>

\* A variant of FlipCondition that reads the primary camera's flag.
FlipConditionPrimary == bottomCamModel.flip180

\* Line 80: the condition of the flip.
FlipCondition == bottomCamModel2.flip180

\* Lines 80-82: rotate the second bottom camera's image 180 degree.
FlipSecondary ==
  /\ pc = "flipSecondary"
  /\ IF FlipCondition
     THEN bottomImage2' = Flip180(bottomImage2) /\ ops' = Append(ops, "flip2")
     ELSE UNCHANGED <<bottomImage2, ops>>
  /\ Goto("readPrevFrame")
  /\ UNCHANGED <<params, raws, bottomCamModel, bottomCamModel2, bottomImage, masks,
                 priors, derived, cacheReads, engineCalls, written>>

\* A variant of ReadsPrevFrame that takes only the empty string for "no
\* previous frame".
ReadsPrevFrameUnlessEmpty == prevFrameDataDir # ""

\* Line 89: the condition of the reads.
ReadsPrevFrame == prevFrameDataDir # "NONE"

\* The first n files of fs that can be read, n the first unreadable one.
RECURSIVE ReadableBefore(_, _)
ReadableBefore(fs, i) ==
  IF i > Len(fs) \/ ~fs[i].readable THEN i - 1 ELSE ReadableBefore(fs, i + 1)

\* Lines 86-98: the priors start empty and are read from prevFrameDataDir
\* unless it is "NONE"; each read throws when its file cannot be read.
ReadPrevFrame ==
  /\ pc = "readPrevFrame"
  /\ IF ReadsPrevFrame
     THEN LET fs == <<prevFrameData.flow, prevFrameData.image,
                      prevFrameData.image2>>
              n == ReadableBefore(fs, 1)
          IN /\ cacheReads' = cacheReads \o SubSeq(CacheFiles, 1, Min2(n + 1, 3))
             /\ IF n = 3
                THEN /\ prevFrameBottomPoleRemovalFlow' = fs[1].mat
                     /\ prevBottomImage' = fs[2].mat
                     /\ prevBottomImage2' = fs[3].mat
                     /\ Goto("computeFlow")
                ELSE /\ prevFrameBottomPoleRemovalFlow' =
                          IF n >= 1 THEN fs[1].mat ELSE EmptyMat
                     /\ prevBottomImage' = IF n >= 2 THEN fs[2].mat ELSE EmptyMat
                     /\ prevBottomImage2' = EmptyMat
                     /\ Throw("readPrevFrame")
     ELSE /\ UNCHANGED cacheReads
          /\ prevFrameBottomPoleRemovalFlow' = EmptyMat
          /\ prevBottomImage' = EmptyMat
          /\ prevBottomImage2' = EmptyMat
          /\ Goto("computeFlow")
  /\ UNCHANGED <<params, raws, bottomCamModel, bottomCamModel2, bottomImage,
                 bottomImage2, masks, derived, ops, engineCalls, written>>

\* The displacements the engine's fields are made of (whole pixels).
Shifts == {<<0, 0>>, <<1, 0>>, <<-1, 0>>}

\* What computeOpticalFlow can do with two images: return a field of the
\* size of the first image; with images of different sizes it is outside its
\* contract and may also throw.
EngineResults(image, image2) ==
  {[threw |-> FALSE, flow |-> UniformFlow(image.rows, image.cols, d)] :
     d \in Shifts}
  \cup IF SameSize(image, image2) THEN {}
       ELSE {[threw |-> TRUE, flow |-> EmptyMat]}

\* Lines 100-110: the engine is made and called with the two working images
\* and the three priors.
ComputeFlow ==
  /\ pc = "computeFlow"
  /\ engineCalls' = Append(engineCalls,
       [image |-> bottomImage, image2 |-> bottomImage2,
        prevFlow |-> prevFrameBottomPoleRemovalFlow,
        prevImage |-> prevBottomImage, prevImage2 |-> prevBottomImage2,
        hint |-> "DOWN"])
  /\ ops' = Append(ops, "computeOpticalFlow")
  /\ \E r \in EngineResults(bottomImage, bottomImage2) :
       IF r.threw
       THEN UNCHANGED flow /\ Throw("computeFlow")
       ELSE flow' = r.flow /\ Goto("saveFlowData")
  /\ UNCHANGED <<params, raws, bottomCamModel, bottomCamModel2, bottomImage,
                 bottomImage2, masks, priors, warpedBottomImage2,
                 colorAdjustModel, adjustedBottomImage2, primaryBeforeBlend,
                 cacheReads, written>>

\* A run of writes (saveFlowToFile, imwriteExceptionOnFail) of the files fs
\* in order: the first n succeed, and the next one, if any, throws.
WriteFiles(fs, n, at, next) ==
  /\ written' = written \o SubSeq(fs, 1, n)
  /\ IF n = Len(fs) THEN Goto(next) ELSE Throw(at)

\* A variant of SavesFlowData that reads the debug flag.
SavesFlowDataOnDebugFlag == saveDebugImages

\* Line 112: the condition of the writes.
SavesFlowData == saveFlowDataForNextFrame

\* Lines 112-117: the flow and the two working images are serialized.
SaveFlowData ==
  /\ pc = "saveFlowData"
  /\ IF SavesFlowData
     THEN \E n \in 0 .. Len(FlowFiles) :
            WriteFiles(FlowFiles, n, "saveFlowData", "assertSameSize")
     ELSE UNCHANGED written /\ Goto("assertSameSize")
  /\ UNCHANGED <<params, raws, bottomCamModel, bottomCamModel2, bottomImage,
                 bottomImage2, masks, priors, derived, ops, cacheReads,
                 engineCalls>>

\* Line 120: assert(bottomImage.size() == bottomImage2.size()). A build with
\* assertions aborts on a mismatch; a build with NDEBUG goes on.
AssertSameSize ==
  /\ pc = "assertSameSize"
  /\ IF SameSize(bottomImage, bottomImage2)
     THEN Goto("warpSecondary")
     ELSE \E ndebug \in BOOLEAN :
            IF ndebug THEN Goto("warpSecondary")
            ELSE pc' = "aborted" /\ errAt' = "assertSameSize"
  /\ UNCHANGED <<params, raws, bottomCamModel, bottomCamModel2, bottomImage,
                 bottomImage2, masks, priors, derived, effects>>

\* Lines 121-135: the warp map is built and the secondary image remapped.
WarpSecondary ==
  /\ pc = "warpSecondary"
  /\ warpedBottomImage2' = Remap(bottomImage2, WarpMat(bottomImage, flow))
  /\ ops' = Append(ops, "remap")
  /\ Goto("saveDebugInputs")
  /\ UNCHANGED <<params, raws, bottomCamModel, bottomCamModel2, bottomImage,
                 bottomImage2, masks, priors, flow, colorAdjustModel,
                 adjustedBottomImage2, primaryBeforeBlend, cacheReads,
                 engineCalls, written>>

\* Lines 137 and 178: the condition of the debug writes.
SavesDebugImages == saveDebugImages

\* Lines 137-141: the two working images and the warped secondary are dumped.
SaveDebugInputs ==
  /\ pc = "saveDebugInputs"
  /\ IF SavesDebugImages
     THEN \E n \in 0 .. Len(DebugInputFiles) :
            WriteFiles(DebugInputFiles, n, "saveDebugInputs", "adjustColor")
     ELSE UNCHANGED written /\ Goto("adjustColor")
  /\ UNCHANGED <<params, raws, bottomCamModel, bottomCamModel2, bottomImage,
                 bottomImage2, masks, priors, derived, ops, cacheReads,
                 engineCalls>>

\* Lines 143-146: the colour model is fitted on the primary and the warped
\* secondary and applied to the warped secondary.
AdjustColor ==
  /\ pc = "adjustColor"
  /\ \E model \in ColorModels :
       /\ colorAdjustModel' = model
       /\ adjustedBottomImage2' =
            ApplyColorAdjustmentModel(warpedBottomImage2, model)
  /\ ops' = ops \o <<"buildColorAdjustmentModel", "applyColorAdjustmentModel">>
  /\ Goto("blend")
  /\ UNCHANGED <<params, raws, bottomCamModel, bottomCamModel2, bottomImage,
                 bottomImage2, masks, priors, flow, warpedBottomImage2,
                 primaryBeforeBlend, cacheReads, engineCalls, written>>

\* A variant of Blend that combines the primary with the warped secondary
\* before its colour adjustment.
BlendUncorrected ==
  /\ pc = "blend"
  /\ primaryBeforeBlend' = bottomImage
  /\ \E below \in SUBSET RoundSlots(bottomImage, warpedBottomImage2) :
       bottomImage' = BlendImage(bottomImage, warpedBottomImage2, below)
  /\ ops' = Append(ops, "blend")
  /\ Goto("redoAlpha")
  /\ UNCHANGED <<params, raws, bottomCamModel, bottomCamModel2, bottomImage2, masks,
                 priors, flow, warpedBottomImage2, colorAdjustModel,
                 adjustedBottomImage2, cacheReads, engineCalls, written>>

\* Lines 149-172: the primary and the adjusted warped secondary are combined
\* in place, in bottomImage.
Blend ==
  /\ pc = "blend"
  /\ primaryBeforeBlend' = bottomImage
  /\ \E below \in SUBSET RoundSlots(bottomImage, adjustedBottomImage2) :
       bottomImage' = BlendImage(bottomImage, adjustedBottomImage2, below)
  /\ ops' = Append(ops, "blend")
  /\ Goto("redoAlpha")
  /\ UNCHANGED <<params, raws, bottomCamModel, bottomCamModel2, bottomImage2, masks,
                 priors, flow, warpedBottomImage2, colorAdjustModel,
                 adjustedBottomImage2, cacheReads, engineCalls, written>>

\* Lines 175-176: redo the alpha channel.
RedoAlpha ==
  /\ pc = "redoAlpha"
  /\ bottomImage' = FeatherAlphaChannel(
       CircleAlphaCut(bottomImage, bottomCamModel.usablePixelsRadius),
       alphaFeatherSize)
  /\ ops' = ops \o <<"circleAlphaCut", "feather">>
  /\ Goto("saveDebugCombined")
  /\ UNCHANGED <<params, raws, bottomCamModel, bottomCamModel2, bottomImage2, masks,
                 priors, derived, cacheReads, engineCalls, written>>

\* Lines 178-181: the combined image is dumped and the function returns.
SaveDebugCombined ==
  /\ pc = "saveDebugCombined"
  /\ IF SavesDebugImages
     THEN \E n \in 0 .. Len(DebugCombinedFiles) :
            WriteFiles(DebugCombinedFiles, n, "saveDebugCombined", "done")
     ELSE UNCHANGED written /\ Goto("done")
  /\ UNCHANGED <<params, raws, bottomCamModel, bottomCamModel2, bottomImage,
                 bottomImage2, masks, priors, derived, ops, cacheReads,
                 engineCalls>>

Next ==
  \/ SelectCameras
  \/ ReadBottomImage
  \/ ReadBottomImage2
  \/ ReadPoleMask
  \/ ReadPoleMask2
  \/ CheckPoleMasks
  \/ MakeAlphaChannels
  \/ CutRedMasks
  \/ FeatherAlpha
  \/ FlipSecondary
  \/ ReadPrevFrame
  \/ ComputeFlow
  \/ SaveFlowData
  \/ AssertSameSize
  \/ WarpSecondary
  \/ SaveDebugInputs
  \/ AdjustColor
  \/ Blend
  \/ RedoAlpha
  \/ SaveDebugCombined

Spec == Init /\ [][Next]_vars

\* ------------------------------------------------------- derived notions

\* The steps of the function body in program order.
Steps == <<"selectCameras", "readBottomImage", "readBottomImage2",
           "readPoleMask", "readPoleMask2", "checkPoleMasks",
           "makeAlphaChannels", "cutRedMasks", "featherAlpha", "flipSecondary",
           "readPrevFrame", "computeFlow", "saveFlowData", "assertSameSize",
           "warpSecondary", "saveDebugInputs", "adjustColor", "blend",
           "redoAlpha", "saveDebugCombined", "done">>

StepIndex(step) == CHOOSE i \in 1 .. Len(Steps) : Steps[i] = step

\* The step the call is at, or the step it left the function from.
Position == IF pc \in {"error", "aborted"} THEN StepIndex(errAt)
            ELSE StepIndex(pc)

\* The step has been executed to its end.
Completed(step) == Position > StepIndex(step)

Failed == pc \in {"error", "aborted"}

\* Lines 66-77 for one camera: the masked, feathered working image (each
\* intermediate image is bound once).
MaskedImage(raw, cam, mask, featherSize) ==
  CHOOSE r \in
    { FeatherAlphaChannel(c, featherSize) :
        c \in { CutRedMaskOutOfAlphaChannel(b, mask) :
                 b \in { CircleAlphaCut(a, cam.usablePixelsRadius) :
                          a \in {CvtColorBGR2BGRA(raw)} } } } : TRUE

Colour(px) == <<px[1], px[2], px[3]>>

\* -------------------------------------------------------------------- C1

\* C1: the blend loop leaves a pixel whose primary alpha is 255 unchanged,
\* leaves a pixel unchanged whose primary alpha is below 255 while the
\* adjusted secondary's alpha is 0, and otherwise sets alpha to 255 and each
\* colour channel to a1 * primary + (1 - a1) * secondary with a1 = primary
\* alpha / 255, as an 8-bit value: the sum truncated, one less at most where
\* the float sum of a whole number falls below it. The secondary's alpha
\* enters only through being zero or not.
C1_BlendRule ==
  pc = "redoAlpha" =>
    \A p \in Pixels(primaryBeforeBlend) :
      LET p1 == primaryBeforeBlend.px[p]
          p2 == adjustedBottomImage2.px[p]
          out == bottomImage.px[p]
      IN /\ p1[4] = ChannelMax => out = p1
         /\ (p1[4] < ChannelMax /\ p2[4] = 0) => out = p1
         /\ (p1[4] < ChannelMax /\ p2[4] > 0) =>
              /\ out[4] = ChannelMax
              /\ \A c \in 1 .. 3 :
                   LET w == p1[4] * p1[c] + (ChannelMax - p1[4]) * p2[c]
                   IN /\ ChannelMax * out[c] <= w
                      /\ w - ChannelMax <= ChannelMax * out[c]
                      /\ (w % ChannelMax # 0 \/ p1[4] = 0)
                           => w < ChannelMax * (out[c] + 1)

\* The blend has run on an image with a pixel of each of the three cases,
\* the mixed one with both alphas strictly between 0 and 255.
C1_Witness ==
  /\ pc = "redoAlpha"
  /\ \E p \in Pixels(primaryBeforeBlend) :
       primaryBeforeBlend.px[p][4] = ChannelMax
  /\ \E p \in Pixels(primaryBeforeBlend) :
       /\ primaryBeforeBlend.px[p][4] < ChannelMax
       /\ adjustedBottomImage2.px[p][4] = 0
  /\ \E p \in Pixels(primaryBeforeBlend) :
       /\ primaryBeforeBlend.px[p][4] \in 1 .. ChannelMax - 1
       /\ adjustedBottomImage2.px[p][4] \in 1 .. ChannelMax - 1
       /\ Colour(bottomImage.px[p]) # Colour(primaryBeforeBlend.px[p])

\* -------------------------------------------------------------------- C2

ResultComputed == Completed("redoAlpha")

\* C2: where the primary's alpha was 255 just before the blend, the colour
\* channels of the final image (after the blend and after the final
\* circleAlphaCut and featherAlphaChannel) are the primary's colour channels
\* just before the blend.
C2_OpaquePrimaryKeepsColour ==
  ResultComputed =>
    \A p \in Pixels(primaryBeforeBlend) :
      primaryBeforeBlend.px[p][4] = ChannelMax =>
        Colour(bottomImage.px[p]) = Colour(primaryBeforeBlend.px[p])

\* The call returned an image with a pixel that was opaque in the primary,
\* had data in the secondary of another colour, and lost alpha in the
\* final pass.
C2_Witness ==
  /\ pc = "done"
  /\ \E p \in Pixels(primaryBeforeBlend) :
       /\ primaryBeforeBlend.px[p][4] = ChannelMax
       /\ adjustedBottomImage2.px[p][4] > 0
       /\ Colour(adjustedBottomImage2.px[p]) # Colour(primaryBeforeBlend.px[p])
       /\ bottomImage.px[p][4] < ChannelMax

\* -------------------------------------------------------------------- C3

\* C3 as stated: where the primary's alpha is 0 and the adjusted warped
\* secondary's alpha is 255, the returned image has the secondary's
\* corrected colour and alpha 255, the final recut and feather included.
C3_Original ==
  ResultComputed =>
    \A p \in Pixels(primaryBeforeBlend) :
      (primaryBeforeBlend.px[p][4] = 0
         /\ adjustedBottomImage2.px[p][4] = ChannelMax) =>
        /\ Colour(bottomImage.px[p]) = Colour(adjustedBottomImage2.px[p])
        /\ bottomImage.px[p][4] = ChannelMax

\* C3 amended: where the primary's alpha is 0 and the adjusted warped
\* secondary's alpha is 255, the blend leaves the secondary's corrected
\* colour and alpha 255; after the final recut and feather the colour is
\* still the secondary's corrected colour, the alpha is whatever that pass
\* makes of it, and it is 0 outside the primary's usable radius when the
\* feather size is 0.
C3_HoleFilledBySecondary ==
  \A p \in Pixels(primaryBeforeBlend) :
    (primaryBeforeBlend.px[p][4] = 0
       /\ adjustedBottomImage2.px[p][4] = ChannelMax) =>
      /\ pc = "redoAlpha" => bottomImage.px[p] =
           <<adjustedBottomImage2.px[p][1], adjustedBottomImage2.px[p][2],
             adjustedBottomImage2.px[p][3], ChannelMax>>
      /\ ResultComputed =>
           /\ Colour(bottomImage.px[p]) = Colour(adjustedBottomImage2.px[p])
           /\ (alphaFeatherSize = 0 /\ ~InsideRadius(bottomImage, p,
                 bottomCamModel.usablePixelsRadius))
                => bottomImage.px[p][4] = 0

\* The call returned an image with such a pixel, the secondary's corrected
\* colour differing from the uncorrected one and from the primary's, and
\* the final alpha below 255.
C3_Witness ==
  /\ pc = "done"
  /\ \E p \in Pixels(primaryBeforeBlend) :
       /\ primaryBeforeBlend.px[p][4] = 0
       /\ adjustedBottomImage2.px[p][4] = ChannelMax
       /\ Colour(adjustedBottomImage2.px[p]) # Colour(warpedBottomImage2.px[p])
       /\ Colour(adjustedBottomImage2.px[p]) # Colour(primaryBeforeBlend.px[p])
       /\ bottomImage.px[p][4] < ChannelMax

\* -------------------------------------------------------------------- C4

PoleMaskSteps == {"readPoleMask", "readPoleMask2", "checkPoleMasks"}

\* C4: a pole mask that is missing or has no rows or no columns ends the
\* call with an error before any pixel arithmetic: when the call fails at
\* the pole masks no image operation, engine call, cache read or file write
\* has happened, and whenever one has happened both masks have rows and
\* columns.
C4_BadPoleMaskFailsFirst ==
  /\ (Failed /\ errAt \in PoleMaskSteps) =>
       ops = <<>> /\ engineCalls = <<>> /\ cacheReads = <<>> /\ written = <<>>
  /\ (ops # <<>> \/ engineCalls # <<>> \/ cacheReads # <<>> \/ written # <<>>
        \/ Completed("checkPoleMasks"))
       => /\ bottomRedMask.rows > 0 /\ bottomRedMask.cols > 0
          /\ bottomRedMask2.rows > 0 /\ bottomRedMask2.cols > 0

\* The call failed on a secondary pole mask that was read and has no columns.
C4_Witness ==
  /\ pc = "error"
  /\ errAt = "checkPoleMasks"
  /\ bottomRedMask.rows > 0 /\ bottomRedMask.cols > 0
  /\ bottomRedMask2.rows > 0 /\ bottomRedMask2.cols = 0

\* -------------------------------------------------------------------- C5

\* Some file of fs has been written.
WroteAny(fs) == Range(written) \cap Range(fs) # {}

\* Every file of fs has been written.
WroteAll(fs) == Range(fs) \subseteq Range(written)

\* C5 as stated: the sizes of the two working images are compared before
\* the engine is called, so with working images of different sizes the
\* engine is never called, no flow data is written for the next frame and
\* the colour model is never built.
C5_Original ==
  (Completed("readBottomImage2") /\ ~SameSize(bottomImage, bottomImage2)) =>
    /\ engineCalls = <<>>
    /\ ~WroteAny(FlowFiles)
    /\ ~Completed("adjustColor")

\* -------------------------------------------------------------------- C6

\* C6 as stated: a call that ends in an error leaves the caller's
\* bottomImage as it was (empty, in the model), never an intermediate image.
C6_Original == pc = "error" => bottomImage = EmptyMat

\* -------------------------------------------------------------------- C7

\* C7 as stated: the flow data for the next frame is written only after the
\* combined image has been computed (warp, colour match, blend and final
\* recut and feather), so a failure of that write leaves it computed.
C7_Original ==
  (WroteAny(FlowFiles) \/ (pc = "error" /\ errAt = "saveFlowData"))
    => ResultComputed

\* -------------------------------------------------------------------- C8

\* C8 as stated: a bottom camera with flip180 set has its working image
\* rotated before the alpha channel is added to it, and a camera with
\* flip180 clear is never rotated.
C8_Original ==
  /\ (bottomCamModel.flip180 /\ Completed("makeAlphaChannels"))
       => "flip" \in Range(ops)
  /\ (bottomCamModel2.flip180 /\ Completed("makeAlphaChannels"))
       => "flip2" \in Range(ops)
  /\ ~bottomCamModel.flip180 => "flip" \notin Range(ops)
  /\ ~bottomCamModel2.flip180 => "flip2" \notin Range(ops)

\* C8 amended: only the secondary camera's working image is rotated, when
\* its flip180 is set, and the rotation comes after the alpha channel, the
\* circular cut, the pole-mask cut and the feathering and before the
\* previous frame's data is read and the engine called: the working
\* secondary the engine gets is the rotated masked and feathered raw image; the
\* primary's working image is the masked and feathered raw image whatever
\* its flip180 says; with flip180 clear the secondary is never rotated.
C8_SecondaryRotatedAfterMasking ==
  /\ ("flip2" \in Range(ops)) <=>
       (bottomCamModel2.flip180 /\ Completed("flipSecondary"))
  /\ "flip2" \in Range(ops) =>
       SubSeq(ops, 1, 9) = <<"cvtColor", "cvtColor2", "circleAlphaCut",
                             "circleAlphaCut2", "cutRedMask", "cutRedMask2",
                             "feather", "feather2", "flip2">>
  /\ pc = "computeFlow" =>
       /\ bottomImage = MaskedImage(rawBottomImage, bottomCamModel,
                                    bottomRedMask, alphaFeatherSize)
       /\ bottomImage2 =
            IF bottomCamModel2.flip180
            THEN Flip180(MaskedImage(rawBottomImage2, bottomCamModel2,
                                     bottomRedMask2, alphaFeatherSize))
            ELSE MaskedImage(rawBottomImage2, bottomCamModel2,
                             bottomRedMask2, alphaFeatherSize)
  /\ engineCalls # <<>> => Completed("flipSecondary")

\* Both cameras have flip180 set, the engine has been called, the secondary
\* has been rotated (which changed it), the primary has not.
C8_Witness ==
  /\ bottomCamModel.flip180
  /\ bottomCamModel2.flip180
  /\ pc = "saveFlowData"
  /\ "flip2" \in Range(ops)
  /\ bottomImage2 # MaskedImage(rawBottomImage2, bottomCamModel2,
                                bottomRedMask2, alphaFeatherSize)
  /\ Flip180(bottomImage) # bottomImage

\* -------------------------------------------------------------------- C9

\* C9: with prevFrameDataDir "NONE" no file of it is read and the engine
\* gets an empty prior field and two empty prior images; otherwise the
\* field and both images are read, in that order, before the engine is
\* called, and the engine gets what the three files hold. The engine is
\* called at most once, and exactly once in a call that returns.
C9_PriorsGivenToEngine ==
  /\ Len(engineCalls) <= 1
  /\ pc = "done" => Len(engineCalls) = 1
  /\ prevFrameDataDir = "NONE" => cacheReads = <<>>
  /\ \A i \in 1 .. Len(engineCalls) :
       IF prevFrameDataDir = "NONE"
       THEN /\ engineCalls[i].prevFlow = EmptyMat
            /\ engineCalls[i].prevImage = EmptyMat
            /\ engineCalls[i].prevImage2 = EmptyMat
       ELSE /\ cacheReads = CacheFiles
            /\ prevFrameData.flow.readable
            /\ prevFrameData.image.readable
            /\ prevFrameData.image2.readable
            /\ engineCalls[i].prevFlow = prevFrameData.flow.mat
            /\ engineCalls[i].prevImage = prevFrameData.image.mat
            /\ engineCalls[i].prevImage2 = prevFrameData.image2.mat

\* A call with a previous frame's directory returned: the engine was called
\* once, with the (non-empty) priors read from the directory.
C9_Witness ==
  /\ pc = "done"
  /\ prevFrameDataDir # "NONE"
  /\ Len(engineCalls) = 1
  /\ engineCalls[1].prevFlow # EmptyMat
  /\ engineCalls[1].prevImage # engineCalls[1].prevImage2

\* ------------------------------------------------------------------- C10

\* The channels of the blended image whose float sum fell below the whole
\* number, read off the colours of img (the final pass keeps colour).
BelowOf(primary, secondary, img) ==
  {s \in RoundSlots(primary, secondary) :
     img.px[s[1]][s[2]] #
       BlendChannel(primary.px[s[1]][4], primary.px[s[1]][s[2]],
                    secondary.px[s[1]][s[2]], FALSE)}

\* The returned image is a function of the raw images, the pole masks, the
\* cameras, the feather size, the engine's field, the fitted colour model
\* and the rounding of the blend, each stage computed from the stage before
\* it; the two flags are no argument of any stage.
ReturnedImageDetermined ==
  /\ primaryBeforeBlend = MaskedImage(rawBottomImage, bottomCamModel,
                                      bottomRedMask, alphaFeatherSize)
  /\ bottomImage2 =
       IF bottomCamModel2.flip180
       THEN Flip180(MaskedImage(rawBottomImage2, bottomCamModel2,
                                bottomRedMask2, alphaFeatherSize))
       ELSE MaskedImage(rawBottomImage2, bottomCamModel2, bottomRedMask2,
                        alphaFeatherSize)
  /\ warpedBottomImage2 =
       Remap(bottomImage2, WarpMat(primaryBeforeBlend, flow))
  /\ adjustedBottomImage2 =
       ApplyColorAdjustmentModel(warpedBottomImage2, colorAdjustModel)
  /\ \E blended \in
         {BlendImage(primaryBeforeBlend, adjustedBottomImage2,
                     BelowOf(primaryBeforeBlend, adjustedBottomImage2,
                             bottomImage))} :
       bottomImage = FeatherAlphaChannel(
         CircleAlphaCut(blended, bottomCamModel.usablePixelsRadius),
         alphaFeatherSize)

\* C10: files are written only when the configuration enables it. The flow
\* and the two flow images are written exactly when saveFlowDataForNextFrame
\* is set and the call got through that step; the debug snapshots are
\* written only when saveDebugImages is set, the first three exactly when it
\* is set and the call got through their step, all four in a call that
\* returns; with both flags clear nothing is written on any path; and the
\* returned image is determined by the other inputs, whatever the flags.
C10_WritesOnlyWhenEnabled ==
  /\ WroteAll(FlowFiles) <=>
       (saveFlowDataForNextFrame /\ Completed("saveFlowData"))
  /\ WroteAny(FlowFiles) => saveFlowDataForNextFrame
  /\ WroteAll(DebugInputFiles) <=>
       (saveDebugImages /\ Completed("saveDebugInputs"))
  /\ WroteAll(DebugCombinedFiles) <=> (saveDebugImages /\ pc = "done")
  /\ (WroteAny(DebugInputFiles) \/ WroteAny(DebugCombinedFiles))
       => saveDebugImages
  /\ (~saveFlowDataForNextFrame /\ ~saveDebugImages) => written = <<>>
  /\ Range(written) \subseteq
       Range(FlowFiles) \cup Range(DebugInputFiles) \cup Range(DebugCombinedFiles)
  /\ pc = "done" => ReturnedImageDetermined

\* A call with only saveFlowDataForNextFrame set returned, having written
\* the three flow files and nothing else.
C10_Witness ==
  /\ pc = "done"
  /\ saveFlowDataForNextFrame
  /\ ~saveDebugImages
  /\ written = FlowFiles

====
